---- MODULE Spec2Model ----
(***************************************************************************)
(* State-machine model of src/app.js, the parking allotment application:   *)
(* the STATE object (slots, history, config, theme, timers), the           *)
(* localStorage key 'parkingData', the single modal dialog with the        *)
(* actions bound to its footer buttons, and the handlers that change them  *)
(* (entry-form submit, removeVehicleFlow and its confirmation, reset,      *)
(* theme toggle, navigation, page reload).                                 *)
(*                                                                         *)
(* JavaScript null is the empty tuple Null, a non-null value v is <<v>>.   *)
(* Arrays are sequences; STATE.slots[i] the i-th slot object.  An object   *)
(* reference to a slot is its position in STATE.slots.                     *)
(***************************************************************************)
EXTENDS Integers, Sequences, FiniteSets, TLC

VARIABLES
    slots,      \* STATE.slots
    history,    \* STATE.history, most recent first
    config,     \* STATE.config
    theme,      \* STATE.theme
    timers,     \* STATE.timers: the slot ids that hold an interval
    store,      \* localStorage: << >> when 'parkingData' is absent, <<text>> otherwise
    modal,      \* the actions bound to the footer of #modal, while it is shown
    clock,      \* the value Date.now() returns
    parked,     \* successful parks since the slots were last created (ghost)
    probe       \* argument and result cells of the pure-function checks

vars == <<slots, history, config, theme, timers, store, modal, clock, parked,
          probe>>

(***************************************************************************)
(* Bounds of the model and constants of the program.                       *)
(***************************************************************************)
\* config.totalSlots is 48 in the source; the model runs a smaller facility.
totalSlots == 3
\* Records the history may hold: a removal is requested only below it.
MaxHistory == 2
\* Clock advances allowed.
MaxTicks == 1
\* Largest whole minute the fee checks draw durations from.
MaxMinutes == 95

baseMinutes == 30
basePrice == 20
hourlyAfter == 50

\* The days revenueByDay is called with.
Days == 7
\* Records in the histories revenueByDay is checked on.
MaxRecords == 2
\* The milliseconds revenueByDay takes a day to have.
DayMs == 86400000
\* One hour: what a change of daylight-saving time adds to or takes from a
\* local day.
HourMs == 60 * 60000

\* One clock advance: one hour and one millisecond.
TickMs == 60 * 60000 + 1
\* Date.now() when the page is first opened.
Epoch == 1000

Null == << >>
Some(v) == <<v>>
Val(o) == o[1]

Types == {"car", "bike", "truck"}

\* The category lists the model is run with: the source's, and a one-category one.
TypesByRowChoices == {<<"car", "bike", "truck">>, <<"car">>}

\* The entry forms the user may submit: two that pass the validation, with
\* different numbers, owners and types, and one failing each of its checks.
Submissions ==
    {[number |-> " tn 38 ab 1234", owner |-> "priya", type |-> "car"],
     [number |-> "KA01C123", owner |-> "ravi kumar", type |-> "bike"],
     [number |-> "1234", owner |-> "priya", type |-> "car"],
     [number |-> "KA01C123", owner |-> " ", type |-> "bike"],
     [number |-> "KA01C123", owner |-> "priya", type |-> ""]}

\* Paths the router may be on: the dashboard, and one of the views that
\* start no interval.
Routes == {"/dashboard", "/entry"}

\* Slot ids a removal or details request may carry: every id, and one that
\* matches no slot.
SlotIdInputs == 0 .. totalSlots

(***************************************************************************)
(* Pure helpers.                                                           *)
(***************************************************************************)
\* Math.ceil(a / b) for b > 0.
Ceil(a, b) == -((-a) \div b)

\* computeFee with the hourly part subtracted instead of added.
computeFeeSignSlip(ms, cfg) ==
    LET minutes == Ceil(ms, 60000)
        extraMinutes == minutes - cfg.fee.baseMinutes
        extraHoursRoundedUp == Ceil(extraMinutes, 60)
    IN  IF minutes <= cfg.fee.baseMinutes
        THEN cfg.fee.basePrice
        ELSE cfg.fee.basePrice - extraHoursRoundedUp * cfg.fee.hourlyAfter

\* computeFee with the extra hours rounded down (Math.floor) instead of up.
computeFeeFloorHours(ms, cfg) ==
    LET minutes == Ceil(ms, 60000)
        extraMinutes == minutes - cfg.fee.baseMinutes
        extraHoursRoundedDown == extraMinutes \div 60
    IN  IF minutes <= cfg.fee.baseMinutes
        THEN cfg.fee.basePrice
        ELSE cfg.fee.basePrice + extraHoursRoundedDown * cfg.fee.hourlyAfter

computeFee(ms, cfg) ==
    LET minutes == Ceil(ms, 60000)
        extraMinutes == minutes - cfg.fee.baseMinutes
        extraHoursRoundedUp == Ceil(extraMinutes, 60)
    IN  IF minutes <= cfg.fee.baseMinutes
        THEN cfg.fee.basePrice
        ELSE cfg.fee.basePrice + extraHoursRoundedUp * cfg.fee.hourlyAfter

\* value.trim().toUpperCase(), on the numbers of Submissions.
trimUpper(s) ==
    CASE s = " tn 38 ab 1234" -> "TN 38 AB 1234"
      [] OTHER -> s

\* capWords(value.trim()), on the owners of Submissions.
capWords(s) ==
    CASE s = "priya" -> "Priya"
      [] s = "ravi kumar" -> "Ravi Kumar"
      [] s = " " -> ""
      [] OTHER -> s

\* /^[A-Z]{2}\s?\d{2}\s?[A-Z]{1,2}\s?\d{3,4}$/.test(number), on the normalised inputs.
plateOk(number) == number \in {"TN 38 AB 1234", "KA01C123"}

\* owner is non-empty and at least two characters long.
ownerOk(owner) == owner # "" /\ Len(owner) >= 2

\* initSlots without its early return: the slots are created anew even when
\* some were loaded.
initSlotsAlways(sl, cfg) ==
    [i \in 1 .. cfg.totalSlots |->
        [id |-> i,
         type |-> cfg.typesByRow[(i % Len(cfg.typesByRow)) + 1],
         occupied |-> FALSE,
         vehicle |-> Null,
         entryTime |-> Null]]

initSlots(sl, cfg) ==
    IF Len(sl) # 0 THEN sl
    ELSE [i \in 1 .. cfg.totalSlots |->
            [id |-> i,
             type |-> cfg.typesByRow[(i % Len(cfg.typesByRow)) + 1],
             occupied |-> FALSE,
             vehicle |-> Null,
             entryTime |-> Null]]

\* nearestEmptySlot with the comparator of its sort reversed (b.id - a.id).
nearestEmptySlotReversed(sl, type) ==
    LET sameType == {i \in 1 .. Len(sl) : ~sl[i].occupied /\ sl[i].type = type}
        anyType == {i \in 1 .. Len(sl) : ~sl[i].occupied}
        pool == IF sameType # {} THEN sameType ELSE anyType
    IN  IF pool = {} THEN 0
        ELSE CHOOSE i \in pool : \A j \in pool : sl[i].id >= sl[j].id

\* nearestEmptySlot without the check of an empty pool: the first slot is
\* returned when none is free.
nearestEmptySlotNoNull(sl, type) ==
    LET sameType == {i \in 1 .. Len(sl) : ~sl[i].occupied /\ sl[i].type = type}
        anyType == {i \in 1 .. Len(sl) : ~sl[i].occupied}
        pool == IF sameType # {} THEN sameType ELSE anyType
    IN  IF pool = {} THEN 1
        ELSE CHOOSE i \in pool : \A j \in pool : sl[i].id <= sl[j].id

\* nearestEmptySlot with filters that do not look at occupied.
nearestEmptySlotIgnoresOccupied(sl, type) ==
    LET sameType == {i \in 1 .. Len(sl) : sl[i].type = type}
        anyType == 1 .. Len(sl)
        pool == IF sameType # {} THEN sameType ELSE anyType
    IN  IF pool = {} THEN 0
        ELSE CHOOSE i \in pool : \A j \in pool : sl[i].id <= sl[j].id

\* The position in sl of the slot nearestEmptySlot returns, 0 for null.
nearestEmptySlot(sl, type) ==
    LET sameType == {i \in 1 .. Len(sl) : ~sl[i].occupied /\ sl[i].type = type}
        anyType == {i \in 1 .. Len(sl) : ~sl[i].occupied}
        pool == IF sameType # {} THEN sameType ELSE anyType
    IN  IF pool = {} THEN 0
        ELSE CHOOSE i \in pool : \A j \in pool : sl[i].id <= sl[j].id

\* The slot looked up as STATE.slots[slotId], by array index, not by id.
findSlotByIndex(sl, slotId) ==
    IF slotId + 1 \in 1 .. Len(sl) THEN slotId + 1 ELSE 0

\* STATE.slots.find(x => x.id === slotId): the position, 0 for undefined.
findSlot(sl, slotId) ==
    IF \E i \in 1 .. Len(sl) : sl[i].id = slotId
    THEN CHOOSE i \in 1 .. Len(sl) :
            sl[i].id = slotId /\ \A j \in 1 .. Len(sl) : sl[j].id = slotId => i <= j
    ELSE 0

\* The ids of the occupied slots: the slots renderDashboard starts an interval for.
occupiedIds(sl) == {sl[i].id : i \in {j \in 1 .. Len(sl) : sl[j].occupied}}

(***************************************************************************)
(* Persistence.  The JSON text is the sequence of its <<key, value>>        *)
(* members in the order JSON.stringify writes them.                        *)
(***************************************************************************)
\* JSON.stringify with the slots written under the key 'slot'.
stringifyMisnamedKey(sl, hist, cfg, th) ==
    << <<"slot", sl>>, <<"history", hist>>, <<"config", cfg>>, <<"theme", th>> >>

\* JSON.stringify(persist), persist being STATE without timers.
stringify(sl, hist, cfg, th) ==
    << <<"slots", sl>>, <<"history", hist>>, <<"config", cfg>>, <<"theme", th>> >>

\* Whether the parsed object has member key.
hasKey(text, key) == \E i \in 1 .. Len(text) : text[i][1] = key

\* data[key] of the parsed object.
member(text, key) == text[CHOOSE i \in 1 .. Len(text) : text[i][1] = key][2]

\* save() writing the history as it was when the script started, empty.
saveWithoutHistory(sl, hist, cfg, th) == Some(stringify(sl, << >>, cfg, th))

\* save(): the new content of localStorage.
save(sl, hist, cfg, th) == Some(stringify(sl, hist, cfg, th))

\* localStorage.getItem('parkingData') || '{}', parsed.
getData(st) == IF st = Null THEN << >> ELSE Val(st)

\* Whether JSON.parse accepts the text: every member has its value.  A text
\* it rejects makes load() leave through its catch.
parses(text) == \A i \in 1 .. Len(text) : Len(text[i]) = 2

\* load(): whether Object.assign is reached.
loadApplies(st) ==
    /\ parses(getData(st))
    /\ hasKey(getData(st), "slots") /\ hasKey(getData(st), "history")

\* The STATE literal the script starts from.
State0(cfg) ==
    [slots |-> << >>, history |-> << >>, config |-> cfg, theme |-> "dark",
     timers |-> {}]

\* load(): STATE after it, from the STATE literal.
load(st, cfg) ==
    IF loadApplies(st)
    THEN [slots |-> member(getData(st), "slots"),
          history |-> member(getData(st), "history"),
          config |-> IF hasKey(getData(st), "config")
                     THEN member(getData(st), "config") ELSE cfg,
          theme |-> IF hasKey(getData(st), "theme")
                    THEN member(getData(st), "theme") ELSE "dark",
          timers |-> {}]
    ELSE State0(cfg)

(***************************************************************************)
(* The modal dialog.                                                       *)
(***************************************************************************)
NoModal == [kind |-> "none", slot |-> 0, slotId |-> 0, now |-> 0, duration |-> 0, fee |-> 0]
InfoModal(k) == [NoModal EXCEPT !.kind = k]

IdleProbe == [d1 |-> 0, d2 |-> 0, f1 |-> Null, f2 |-> Null]

TheConfig(t) ==
    [totalSlots |-> totalSlots,
     typesByRow |-> t,
     fee |-> [baseMinutes |-> baseMinutes, basePrice |-> basePrice,
              hourlyAfter |-> hourlyAfter]]

\* boot() on a first run: nothing is stored, initSlots creates the slots.
FirstRun(cfg) ==
    /\ config = cfg
    /\ slots = initSlots(<< >>, cfg)
    /\ history = << >>
    /\ theme = "dark"
    /\ timers = {}
    /\ store = Null
    /\ modal = NoModal
    /\ clock = Epoch
    /\ parked = 0

\* The application as configured in the source.
Init == FirstRun(TheConfig(<<"car", "bike", "truck">>)) /\ probe = IdleProbe

\* The application under any of the category lists of TypesByRowChoices.
InitConfigs == (\E t \in TypesByRowChoices : FirstRun(TheConfig(t))) /\ probe = IdleProbe

\* Time passes.
Tick ==
    /\ clock < Epoch + MaxTicks * TickMs
    /\ clock' = clock + TickMs
    /\ UNCHANGED <<slots, history, config, theme, timers, store, modal, parked,
                   probe>>

\* Entry-form submit handler: validation, nearestEmptySlot, the session, save().
Park(form) ==
    LET number == trimUpper(form.number)
        owner == capWords(form.owner)
        type == form.type
        valid == plateOk(number) /\ ownerOk(owner) /\ type \in {"car", "bike", "truck"}
        slot == nearestEmptySlot(slots, type)
    IN  IF ~valid
        THEN UNCHANGED vars
        ELSE IF slot = 0
        THEN UNCHANGED vars
        ELSE /\ slots' = [slots EXCEPT ![slot] =
                            [@ EXCEPT !.occupied = TRUE,
                                      !.vehicle = Some([number |-> number,
                                                        owner |-> owner,
                                                        type |-> type]),
                                      !.entryTime = Some(clock)]]
             /\ store' = save(slots', history, config, theme)
             /\ modal' = InfoModal("parked")
             /\ parked' = parked + 1
             /\ UNCHANGED <<history, config, theme, timers, clock, probe>>

\* navigate(path): only renderDashboard touches STATE, starting an interval
\* for every occupied slot.
navigate(path, sl, tm) ==
    IF path = "/dashboard" THEN tm \cup occupiedIds(sl) ELSE tm

\* The hashchange listener.
Navigate(path) ==
    /\ timers' = navigate(path, slots, timers)
    /\ UNCHANGED <<slots, history, config, theme, store, modal, clock,
                   parked, probe>>

\* The Details button of a dashboard card.
Details(id) ==
    /\ findSlot(slots, id) # 0
    /\ modal' = InfoModal("details")
    /\ UNCHANGED <<slots, history, config, theme, timers, store, clock,
                   parked, probe>>

\* A JavaScript value as an operand of -: null counts as 0.
Num(o) == IF o = Null THEN 0 ELSE Val(o)

\* The duration with its operands the wrong way round.
parkedDurationSwapped(now, entryTime) == Num(entryTime) - now

\* duration = now - s.entryTime
parkedDuration(now, entryTime) == now - Num(entryTime)

\* What a call removeVehicleFlow(slotId) gives its caller: the value it
\* returns, and whether it went on to open the confirmation dialog.
removeOutcome(sl, slotId) ==
    LET s == findSlot(sl, slotId)
    IN  IF s = 0 \/ ~sl[s].occupied
        THEN [returns |-> "undefined", dialog |-> FALSE]
        ELSE [returns |-> "undefined", dialog |-> TRUE]

\* removeVehicleFlow(slotId), up to the confirmation dialog it opens.  The
\* dialog's text reads s.vehicle.number: without a vehicle the call throws
\* before showConfirm.
removeVehicleFlow(slotId) ==
    LET s == findSlot(slots, slotId)
    IN  IF ~removeOutcome(slots, slotId).dialog
        THEN UNCHANGED vars
        ELSE LET now == clock
                 duration == parkedDuration(now, slots[s].entryTime)
                 fee == computeFee(duration, config)
             IN  IF slots[s].vehicle = Null
                 THEN UNCHANGED vars
                 ELSE /\ Len(history) < MaxHistory
                      /\ modal' = [kind |-> "remove", slot |-> s, slotId |-> slotId,
                                   now |-> now, duration |-> duration, fee |-> fee]
                      /\ UNCHANGED <<slots, history, config, theme, timers, store,
                                     clock, parked, probe>>

\* The record with the vehicle number copied into its owner.
historyRecordWrongOwner(s, m) ==
    [vehicleNumber |-> Val(s.vehicle).number,
     owner |-> Val(s.vehicle).number,
     type |-> Val(s.vehicle).type,
     slotId |-> s.id,
     entryTime |-> Num(s.entryTime),
     exitTime |-> m.now,
     durationMs |-> m.duration,
     fee |-> m.fee]

\* The record charged the base price whatever the duration.
historyRecordBasePrice(s, m) ==
    [vehicleNumber |-> Val(s.vehicle).number,
     owner |-> Val(s.vehicle).owner,
     type |-> Val(s.vehicle).type,
     slotId |-> s.id,
     entryTime |-> Num(s.entryTime),
     exitTime |-> m.now,
     durationMs |-> m.duration,
     fee |-> basePrice]

\* The record with the entry time written as its exit time.
historyRecordExitIsEntry(s, m) ==
    [vehicleNumber |-> Val(s.vehicle).number,
     owner |-> Val(s.vehicle).owner,
     type |-> Val(s.vehicle).type,
     slotId |-> s.id,
     entryTime |-> Num(s.entryTime),
     exitTime |-> Num(s.entryTime),
     durationMs |-> m.duration,
     fee |-> m.fee]

\* The record the confirmation callback puts in front of the history.
historyRecord(s, m) ==
    [vehicleNumber |-> Val(s.vehicle).number,
     owner |-> Val(s.vehicle).owner,
     type |-> Val(s.vehicle).type,
     slotId |-> s.id,
     entryTime |-> Num(s.entryTime),
     exitTime |-> m.now,
     durationMs |-> m.duration,
     fee |-> m.fee]

\* fmtDuration(ms): the hours, minutes and seconds it prints.
fmtDuration(ms) ==
    LET t == IF ms > 0 THEN ms ELSE 0
    IN  [h |-> t \div 3600000,
         m |-> (t % 3600000) \div 60000,
         s |-> (t % 60000) \div 1000]

\* The data the callback hands to showInvoice, read from STATE.history[0]
\* after the unshift, with the slot id and the fee of the request.
invoiceData(m, hist) ==
    [slotId |-> m.slotId,
     vehicleNumber |-> hist[1].vehicleNumber,
     owner |-> hist[1].owner,
     type |-> hist[1].type,
     entryTime |-> hist[1].entryTime,
     exitTime |-> hist[1].exitTime,
     duration |-> fmtDuration(hist[1].durationMs),
     fee |-> m.fee]

\* The slot freed without clearing its entry time.
freeSlotKeepsEntryTime(s) == [s EXCEPT !.occupied = FALSE, !.vehicle = Null]

\* The slot cleared of its session but left marked occupied.
freeSlotStaysOccupied(s) == [s EXCEPT !.vehicle = Null, !.entryTime = Null]

\* The slot freed and given back as a slot of the first category.
freeSlotResetsType(s) ==
    [s EXCEPT !.occupied = FALSE, !.vehicle = Null, !.entryTime = Null,
              !.type = "car"]

\* The slot after the callback has freed it.
freeSlot(s) == [s EXCEPT !.occupied = FALSE, !.vehicle = Null, !.entryTime = Null]

\* The confirmation callback with the record put behind the history (push)
\* instead of in front of it.
ConfirmRemovePushes ==
    /\ modal.kind = "remove"
    /\ IF slots[modal.slot].vehicle = Null
       THEN UNCHANGED vars
       ELSE /\ history' = history \o <<historyRecord(slots[modal.slot], modal)>>
            /\ slots' = [slots EXCEPT ![modal.slot] = freeSlot(@)]
            /\ store' = save(slots', history', config, theme)
            /\ timers' = navigate("/dashboard", slots', timers \ {modal.slotId})
            /\ modal' = NoModal
            /\ UNCHANGED <<config, theme, clock, parked, probe>>

\* The Confirm button of the dialog removeVehicleFlow opened.  The callback
\* reads s.vehicle.number first: on a slot without vehicle it throws there,
\* before anything is changed and before hideModal().
ConfirmRemove ==
    /\ modal.kind = "remove"
    /\ IF slots[modal.slot].vehicle = Null
       THEN UNCHANGED vars
       ELSE /\ history' = <<historyRecord(slots[modal.slot], modal)>> \o history
            /\ slots' = [slots EXCEPT ![modal.slot] = freeSlot(@)]
            /\ store' = save(slots', history', config, theme)
            /\ timers' = navigate("/dashboard", slots', timers \ {modal.slotId})
            /\ modal' = NoModal
            /\ UNCHANGED <<config, theme, clock, parked, probe>>

\* The click on #resetDataBtn resetting at once, without a dialog of its own:
\* whatever dialog is open stays as it is.
ResetWithoutDialog ==
    /\ store' = Null
    /\ slots' = initSlots(<< >>, config)
    /\ history' = << >>
    /\ parked' = 0
    /\ UNCHANGED <<config, theme, timers, modal, clock, probe>>

\* The click on #resetDataBtn.
ResetRequest ==
    /\ modal' = InfoModal("reset")
    /\ UNCHANGED <<slots, history, config, theme, timers, store, clock,
                   parked, probe>>

\* The reset callback without localStorage.removeItem('parkingData').
ConfirmResetKeepsStore(path) ==
    /\ modal.kind = "reset"
    /\ slots' = initSlots(<< >>, config)
    /\ history' = << >>
    /\ timers' = navigate(path, slots', timers)
    /\ modal' = NoModal
    /\ parked' = 0
    /\ UNCHANGED <<store, config, theme, clock, probe>>

\* The Confirm button of the reset dialog; path is currentPath().
ConfirmReset(path) ==
    /\ modal.kind = "reset"
    /\ store' = Null
    /\ slots' = initSlots(<< >>, config)
    /\ history' = << >>
    /\ timers' = navigate(path, slots', timers)
    /\ modal' = NoModal
    /\ parked' = 0
    /\ UNCHANGED <<config, theme, clock, probe>>

\* The OK button of the 'Vehicle parked' dialog sets location.hash to
\* '#/dashboard'; the hashchange listener runs when that changes the hash.
ParkedOk(hashChanged) ==
    /\ modal.kind = "parked"
    /\ timers' = IF hashChanged THEN navigate("/dashboard", slots, timers) ELSE timers
    /\ modal' = NoModal
    /\ UNCHANGED <<slots, history, config, theme, store, clock, parked,
                   probe>>

\* hideModal() without a callback: Cancel, Close, the dialog's X.
HideModal ==
    /\ modal.kind # "none"
    /\ modal' = NoModal
    /\ UNCHANGED <<slots, history, config, theme, timers, store, clock,
                   parked, probe>>

\* The page is loaded again: the script starts from its STATE literal and
\* boot() runs load(), initSlots() and navigate(currentPath()).
Boot(path) ==
    LET loaded == load(store, config)
        sl == initSlots(loaded.slots, loaded.config)
    IN  /\ slots' = sl
        /\ history' = loaded.history
        /\ config' = loaded.config
        /\ theme' = loaded.theme
        /\ timers' = navigate(path, sl, loaded.timers)
        /\ modal' = NoModal
        /\ parked' = IF loadApplies(store) THEN parked ELSE 0
        /\ UNCHANGED <<store, clock, probe>>

\* The click on #themeToggle.
ThemeToggle(path) ==
    IF theme = "dark"
    THEN /\ theme' = "light"
         /\ UNCHANGED <<slots, history, config, timers, store, modal, clock,
                        parked, probe>>
    ELSE Boot(path)

\* The handlers of the session lifecycle and of persistence.
CoreNext ==
    \/ Tick
    \/ \E form \in Submissions : Park(form)
    \/ \E id \in SlotIdInputs : removeVehicleFlow(id)
    \/ ConfirmRemove
    \/ ResetRequest
    \/ \E p \in Routes : ConfirmReset(p)
    \/ \E b \in BOOLEAN : ParkedOk(b)
    \/ HideModal
    \/ \E p \in Routes : Boot(p)

\* The handlers that only change the view: they write timers, theme and the
\* dialog, and reload the page.
ViewNext ==
    \/ \E p \in Routes : Navigate(p)
    \/ \E id \in SlotIdInputs : Details(id)
    \/ \E p \in Routes : ThemeToggle(p)

Next == CoreNext \/ ViewNext

Spec == Init /\ [][Next]_vars

(***************************************************************************)
(* Analytics helpers.                                                      *)
(***************************************************************************)
\* counts[t]++ for every t of types, in order.
RECURSIVE tallyTypes(_, _)
tallyTypes(types, counts) ==
    IF types = << >> THEN counts
    ELSE tallyTypes(Tail(types), [counts EXCEPT ![Head(types)] = @ + 1])

\* typeCounts() without the pass over the occupied slots.
typeCountsHistoryOnly(sl, hist) ==
    tallyTypes([i \in 1 .. Len(hist) |-> hist[i].type],
               [car |-> 0, bike |-> 0, truck |-> 0])

\* typeCounts(): the records of the history, then the occupied slots.
typeCounts(sl, hist) ==
    LET counts == [car |-> 0, bike |-> 0, truck |-> 0]
        afterHistory == tallyTypes([i \in 1 .. Len(hist) |-> hist[i].type], counts)
        occupiedSlots == SelectSeq(sl, LAMBDA x : x.occupied)
    IN  tallyTypes([i \in 1 .. Len(occupiedSlots) |->
                       Val(occupiedSlots[i].vehicle).type],
                   afterHistory)

\* reduce((sum, h) => sum + h.fee, 0)
RECURSIVE sumFees(_)
sumFees(records) ==
    IF records = << >> THEN 0 ELSE Head(records).fee + sumFees(Tail(records))

\* The local calendar new Date() works in: cal[k] is the length of local day
\* k in milliseconds, and midnight(cal, k) the instant local day k begins,
\* which is what setDate and setHours(0,0,0,0) arrive at.
RECURSIVE midnight(_, _)
midnight(cal, k) == IF k = 0 THEN 0 ELSE midnight(cal, k - 1) + cal[k - 1]

\* revenueByDay(days), called on local day today: the buckets in the order
\* the loop pushes them, i = days-1 down to 0.
revenueByDay(days, hist, cal, today) ==
    [n \in 1 .. days |->
        LET i == days - n
            start == midnight(cal, today - i)
            end == start + DayMs - 1
        IN  [label |-> today - i,
             value |-> sumFees(SelectSeq(hist,
                          LAMBDA h : h.exitTime >= start /\ h.exitTime <= end))]]

(***************************************************************************)
(* computeFee on its own: two durations are drawn, the fee of each is      *)
(* computed.                                                               *)
(***************************************************************************)
\* Whole minutes up to MaxMinutes, and one millisecond past each.
Durations == {m * 60000 + r : m \in 0 .. MaxMinutes, r \in {0, 1}}

FeeInit ==
    /\ FirstRun(TheConfig(<<"car", "bike", "truck">>))
    /\ probe \in {[IdleProbe EXCEPT !.d1 = a, !.d2 = b] : a \in Durations, b \in Durations}

ApplyFee ==
    /\ probe.f1 = Null
    /\ probe' = [probe EXCEPT !.f1 = Some(computeFee(probe.d1, config)),
                              !.f2 = Some(computeFee(probe.d2, config))]
    /\ UNCHANGED <<slots, history, config, theme, timers, store, modal, clock,
                   parked>>

FeeSpec == FeeInit /\ [][ApplyFee]_vars

\* The application under any of the category lists.
SpecConfigs == InitConfigs /\ [][Next]_vars

(***************************************************************************)
(* Start-up from whatever value localStorage holds under 'parkingData':    *)
(* nothing, a text cut off in the middle, an object without some of its    *)
(* members, members whose entries lack fields, and snapshots save() wrote. *)
(***************************************************************************)
\* A snapshot's slots with a car parked in the first one.
StoredParkedSlots ==
    [initSlots(<< >>, TheConfig(<<"car", "bike", "truck">>)) EXCEPT ![1] =
        [@ EXCEPT !.occupied = TRUE,
                  !.vehicle = Some([number |-> "KA01C123", owner |-> "Priya",
                                    type |-> "car"]),
                  !.entryTime = Some(Epoch)]]

\* A record of a stay of no time in slot 2.
StoredRecord ==
    [vehicleNumber |-> "KA01C123", owner |-> "Priya", type |-> "car",
     slotId |-> 2, entryTime |-> Epoch, exitTime |-> Epoch, durationMs |-> 0,
     fee |-> basePrice]

\* The "slots" member: absent, as save() writes it, or an array whose one
\* entry has an id and nothing else of a slot but its occupied flag.
StoredSlotsMembers ==
    {<< >>,
     << <<"slots", initSlots(<< >>, TheConfig(<<"car", "bike", "truck">>))>> >>,
     << <<"slots", StoredParkedSlots>> >>,
     << <<"slots", << [id |-> 7, occupied |-> FALSE] >> >> >>}

\* The "history" member: absent, as save() writes it, or an array whose one
\* entry has only a fee.
StoredHistoryMembers ==
    {<< >>,
     << <<"history", << >> >> >>,
     << <<"history", <<StoredRecord>> >> >>,
     << <<"history", << [fee |-> 5] >> >> >>}

StoredConfigMembers ==
    {<< >>, << <<"config", TheConfig(<<"car", "bike", "truck">>)>> >>}

StoredThemeMembers == {<< >>, << <<"theme", "dark">> >>, << <<"theme", "light">> >>}

\* The end of the text: complete, or cut off after a key.
StoredTails == {<< >>, << <<"theme">> >>}

\* The page is opened with one of these values in the store.
StoredInit ==
    /\ config = TheConfig(<<"car", "bike", "truck">>)
    /\ slots = initSlots(<< >>, config)
    /\ history = << >>
    /\ theme = "dark"
    /\ timers = {}
    /\ modal = NoModal
    /\ clock = Epoch
    /\ parked = 0
    /\ probe = IdleProbe
    /\ \/ store = Null
       \/ \E s \in StoredSlotsMembers, h \in StoredHistoryMembers,
             c \in StoredConfigMembers, t \in StoredThemeMembers,
             e \in StoredTails :
             store = Some(s \o h \o c \o t \o e)

StoredNext == \E p \in Routes : Boot(p)

StoredSpec == StoredInit /\ [][StoredNext]_vars

(***************************************************************************)
(* revenueByDay on its own: a local calendar and a history are drawn, the  *)
(* buckets are computed on the last day of the calendar.                   *)
(***************************************************************************)
\* Local days 0 .. Days: all of 24 hours, or one of them an hour shorter or
\* longer, as on the days daylight-saving time begins and ends.
Calendars ==
    {[k \in 0 .. Days |-> DayMs]}
    \cup {[k \in 0 .. Days |-> IF k = c THEN DayMs + delta ELSE DayMs] :
              c \in 1 .. Days, delta \in {HourMs, -HourMs}}

\* The instants a removal may have been requested at: the first
\* millisecond, the thirtieth minute and the last millisecond of each day.
ExitInstants(cal) ==
    {midnight(cal, k) + off : k \in 0 .. Days, off \in {0, 30 * 60000}}
    \cup {midnight(cal, k + 1) - 1 : k \in 0 .. Days}

\* The records of stays of no time and of 31 minutes that ended then.
RecordsAt(cal) ==
    {[StoredRecord EXCEPT !.exitTime = x, !.entryTime = x - d, !.durationMs = d,
                          !.fee = computeFee(d, TheConfig(<<"car", "bike", "truck">>))] :
        x \in ExitInstants(cal), d \in {0, 31 * 60000}}

\* The histories of up to MaxRecords of them, most recent first.
HistoriesAt(cal) ==
    {h \in UNION {[1 .. n -> {r \in RecordsAt(cal) : r.entryTime >= 0}] :
                     n \in 0 .. MaxRecords} :
        \A i \in 1 .. Len(h) - 1 : h[i].exitTime >= h[i + 1].exitTime}

RevenueInit ==
    /\ config = TheConfig(<<"car", "bike", "truck">>)
    /\ slots = initSlots(<< >>, config)
    /\ theme = "dark"
    /\ timers = {}
    /\ store = Null
    /\ modal = NoModal
    /\ parked = 0
    /\ \E cal \in Calendars :
          /\ probe = [cal |-> cal, buckets |-> Null]
          /\ clock = midnight(cal, Days + 1) - 1
          /\ history \in HistoriesAt(cal)

\* renderAnalytics calls revenueByDay(7).
ApplyRevenue ==
    /\ probe.buckets = Null
    /\ probe' = [probe EXCEPT !.buckets =
                    Some(revenueByDay(Days, history, probe.cal, Days))]
    /\ UNCHANGED <<slots, history, config, theme, timers, store, modal, clock,
                   parked>>

RevenueSpec == RevenueInit /\ [][ApplyRevenue]_vars

(***************************************************************************)
(* The claims.                                                             *)
(***************************************************************************)
Positions == 1 .. Len(slots)
OccupiedPositions == {i \in Positions : slots[i].occupied}
FreePositions == {i \in Positions : ~slots[i].occupied}
AllOccupied == FreePositions = {}

\* The step is a successful park of form into the slot at position k.
ParkedInto(form, k) == ~slots[k].occupied /\ slots'[k].occupied /\ Park(form)

\* The free slots a park of a vehicle of type T is to choose from: those of
\* type T, or every free slot when there is none.
Candidates(T) ==
    LET same == {i \in FreePositions : slots[i].type = T}
    IN  IF same # {} THEN same ELSE FreePositions

\* The history got one record in front and is otherwise as it was.
Prepended == Len(history') = Len(history) + 1 /\ Tail(history') = history

\* C1, the rule: a successful park of a vehicle of type T takes the free slot
\* of type T with the smallest id, or, when no free slot has type T, the free
\* slot with the smallest id.
C1_ParkTakesNearest ==
    \A form \in Submissions, k \in Positions :
        ParkedInto(form, k) =>
            /\ k \in Candidates(form.type)
            /\ \A j \in Candidates(form.type) : slots[k].id <= slots[j].id

\* C1, the scenario, in a facility whose slots are all of type car: while
\* nothing has been removed the occupied slots are 1, 2, ... in that order;
\* with every slot occupied a park gets no slot; with slot 2 the only free
\* slot a park gets slot 2.
C1_Scenario ==
    config.typesByRow = <<"car">> =>
        /\ history = << >> =>
              {slots[i].id : i \in OccupiedPositions} = 1 .. Cardinality(OccupiedPositions)
        /\ AllOccupied => nearestEmptySlot(slots, "car") = 0
        /\ {slots[i].id : i \in FreePositions} = {2} =>
              /\ nearestEmptySlot(slots, "car") # 0
              /\ slots[nearestEmptySlot(slots, "car")].id = 2

\* C1: in every reachable state a park of a vehicle of type T is assigned the
\* free slot with the smallest id among the free slots of type T, and the
\* free slot with the smallest id when no free slot has type T; with all
\* slots of type car the parks fill slots 1, 2, 3 in order, a park on the
\* full facility fails, and after slot 2 is released the next park gets it.
C1_Allocation == [][C1_Scenario /\ C1_Scenario' /\ C1_ParkTakesNearest]_vars

\* C1 witness: the all-car facility after the scenario: every slot was filled,
\* slot 2 was released and has been parked into again.
W_C1 ==
    /\ config.typesByRow = <<"car">>
    /\ parked = totalSlots + 1
    /\ AllOccupied
    /\ Len(history) = 1
    /\ history[1].slotId = 2
    /\ Val(slots[2].entryTime) >= history[1].exitTime

\* C2: when every slot is occupied a park request gets no slot and changes
\* neither the slots, nor the history, nor the persisted snapshot.
C2_FullParkChangesNothing ==
    [][/\ AllOccupied => \A t \in Types : nearestEmptySlot(slots, t) = 0
       /\ \A form \in Submissions :
             (AllOccupied /\ Park(form)) =>
                 (slots' = slots /\ history' = history /\ store' = store)]_vars

\* C2 witness: every slot is occupied and the snapshot of that is stored.
W_C2 == AllOccupied /\ store = save(slots, history, config, "dark")

\* C3: a slot is occupied exactly if it holds a vehicle and an entry time,
\* and a free slot holds neither.
C3_OccupiedIffSession ==
    \A i \in Positions :
        /\ slots[i].occupied <=> (slots[i].vehicle # Null /\ slots[i].entryTime # Null)
        /\ ~slots[i].occupied => (slots[i].vehicle = Null /\ slots[i].entryTime = Null)

\* C3 witness: a slot that was released is free beside an occupied one.
W_C3 ==
    /\ Len(history) > 0
    /\ \E i \in FreePositions : slots[i].id = history[1].slotId
    /\ OccupiedPositions # {}

\* C4, a park: the slot parked into holds the number, owner and type of the
\* submitted form as the handler normalises them.
C4_ParkOpensSession ==
    \A form \in Submissions, k \in Positions :
        ParkedInto(form, k) =>
            /\ slots'[k].vehicle = Some([number |-> trimUpper(form.number),
                                         owner |-> capWords(form.owner),
                                         type |-> form.type])
            /\ \A j \in Positions \ {k} : slots'[j] = slots[j]
            /\ history' = history

\* C4, in between: a slot that stays occupied keeps its session.
C4_SessionKept ==
    \A k \in Positions :
        (slots[k].occupied /\ slots'[k].occupied) => slots'[k] = slots[k]

\* C4, the confirmed removal: exactly one record is put in front of the
\* history; it carries the number, owner and type of the vehicle of one
\* occupied slot and that slot's id; that slot is left free, without vehicle
\* and entry time, and every other slot is unchanged.
C4_RemovalClosesSession ==
    Len(history') = Len(history) + 1 =>
        /\ Tail(history') = history
        /\ \E k \in OccupiedPositions :
              /\ history'[1].vehicleNumber = Val(slots[k].vehicle).number
              /\ history'[1].owner = Val(slots[k].vehicle).owner
              /\ history'[1].type = Val(slots[k].vehicle).type
              /\ history'[1].slotId = slots[k].id
              /\ slots'[k] = [id |-> slots[k].id, type |-> slots[k].type,
                              occupied |-> FALSE, vehicle |-> Null,
                              entryTime |-> Null]
              /\ \A j \in Positions \ {k} : slots'[j] = slots[j]

\* C4: parking a vehicle (P, O, T) into slot k and then confirming its
\* removal leaves slot k free and adds exactly one record, in front of the
\* history, with P, O, T and k; every other slot and every earlier record is
\* unchanged.
C4_ParkThenRemove ==
    [][C4_ParkOpensSession /\ C4_SessionKept /\ C4_RemovalClosesSession]_vars

\* C4 witness: the bike of Ravi Kumar was parked and removed; its record
\* heads a history of two and its slot is free.
W_C4 ==
    /\ Len(history) = 2
    /\ history[1].owner = "Ravi Kumar"
    /\ history[1].vehicleNumber = "KA01C123"
    /\ history[1].type = "bike"
    /\ \E i \in FreePositions : slots[i].id = history[1].slotId

\* C5, the count: the successful parks since the slots were created are the
\* records of the history plus the occupied slots.
C5_Count == parked = Len(history) + Cardinality(OccupiedPositions)

\* C5, the step: outside a reset, a slot becomes free only in a step that
\* prepends one record of that slot, and the history changes only by such a
\* step, which frees the record's slot and no other.
C5_ReleaseWithRecord ==
    ~(\E p \in Routes : ConfirmReset(p)) =>
        /\ \A k \in Positions :
              (slots[k].occupied /\ ~slots'[k].occupied) =>
                  (Prepended /\ history'[1].slotId = slots[k].id)
        /\ history' # history =>
              /\ Prepended
              /\ \E k \in Positions :
                    /\ slots[k].occupied /\ ~slots'[k].occupied
                    /\ slots[k].id = history'[1].slotId
                    /\ \A j \in Positions \ {k} :
                          slots'[j].occupied = slots[j].occupied

\* C5: a release frees the slot and appends its record in one step: outside
\* a reset no slot is freed without its record and no record is appended
\* while its slot stays occupied, so the successful parks since the last
\* reset number the records plus the occupied slots.
C5_ReleaseAtomic == [][C5_Count /\ C5_Count' /\ C5_ReleaseWithRecord]_vars

\* C5 witness: two parks, one of them released: one record, one occupied slot.
W_C5 == parked = 2 /\ Len(history) = 1 /\ Cardinality(OccupiedPositions) = 1

\* C6 as stated: the record a release creates has exitTime equal to the clock
\* at the step that frees the slot and appends the record, and durationMs
\* equal to that clock value minus the entry time, whatever time passed
\* between the removal request and its confirmation.
CE_C6_ExitTimeIsConfirmTime ==
    [][Len(history') = Len(history) + 1 =>
          /\ history'[1].exitTime = clock'
          /\ history'[1].durationMs = clock' - history'[1].entryTime]_vars

\* C7: every record of the history has durationMs = exitTime - entryTime,
\* durationMs >= 0 and a fee that is a natural number.
C7_RecordsConsistent ==
    \A i \in 1 .. Len(history) :
        /\ history[i].durationMs = history[i].exitTime - history[i].entryTime
        /\ history[i].durationMs >= 0
        /\ history[i].fee \in Nat

\* C7 witness: a record of a stay of one clock advance, charged above the
\* base price, after a record of a stay of no time.
W_C7 ==
    /\ Len(history) = 2
    /\ history[1].durationMs = TickMs
    /\ history[1].fee > basePrice
    /\ history[2].durationMs = 0

\* The slot id matches no slot, or the slot it matches is free.
NothingToRemove(id) == \A i \in Positions : slots[i].id = id => ~slots[i].occupied

\* C8: a removal request for an id that matches no slot, or for a free slot,
\* changes nothing: not the history, not a slot, not the persisted snapshot,
\* nor anything else, so that repeating it changes nothing either.
C8_FailedRemovalIsNoOp ==
    [][\A id \in SlotIdInputs :
          (NothingToRemove(id) /\ removeVehicleFlow(id)) => UNCHANGED vars]_vars

\* C8 witness: a removal may be asked for an id without slot, for a slot
\* never parked into and for a slot already released, next to an occupied one.
W_C8 ==
    /\ \E id \in SlotIdInputs : \A i \in Positions : slots[i].id # id
    /\ Len(history) > 0
    /\ \E i \in FreePositions : slots[i].id = history[1].slotId
    /\ \E i \in FreePositions : \A r \in 1 .. Len(history) : history[r].slotId # slots[i].id
    /\ OccupiedPositions # {}

\* C9 as stated: the outcome of a release request for an id that matches no
\* slot, the outcome for a slot that is free, and the outcome for an occupied
\* slot are three different outcomes.
CE_C9_FailuresDistinct ==
    \A a \in SlotIdInputs, b \in SlotIdInputs :
        ((\A i \in Positions : slots[i].id # a) /\
         (\E i \in FreePositions : slots[i].id = b)) =>
            /\ removeOutcome(slots, a) # removeOutcome(slots, b)
            /\ \A c \in SlotIdInputs :
                  (\E i \in OccupiedPositions : slots[i].id = c) =>
                      /\ removeOutcome(slots, c) # removeOutcome(slots, a)
                      /\ removeOutcome(slots, c) # removeOutcome(slots, b)

\* C10: the fee of a duration is at least the base price, and of two
\* durations the longer one is not charged less.
C10_FeeAtLeastBaseAndMonotone ==
    probe.f1 # Null =>
        /\ Val(probe.f1) >= config.fee.basePrice
        /\ probe.d1 <= probe.d2 => Val(probe.f1) <= Val(probe.f2)

\* C10 witness: thirty minutes cost the base price, one millisecond more
\* costs more.
W_C10 ==
    /\ probe.f1 # Null
    /\ probe.d1 = baseMinutes * 60000
    /\ probe.d2 = baseMinutes * 60000 + 1
    /\ Val(probe.f1) = basePrice
    /\ Val(probe.f2) > Val(probe.f1)

\* The least n with n * unit >= d: the ceiling of d / unit, found by search.
LeastCover(d, unit) ==
    CHOOSE n \in 0 .. MaxMinutes + 1 :
        n * unit >= d /\ \A k \in 0 .. MaxMinutes + 1 : k * unit >= d => n <= k

\* The tier rule: the base price up to baseMinutes started minutes, and one
\* hourly rate more for every started hour after them.
ReferenceFee(d) ==
    LET minutes == LeastCover(d, 60000)
    IN  IF minutes <= baseMinutes THEN basePrice
        ELSE basePrice + LeastCover(minutes - baseMinutes, 60) * hourlyAfter

\* The fees the rule lists for the configuration (30, 20, 50).
C11_Examples(d, f) ==
    /\ d = 0 => f = 20
    /\ d = 30 * 60000 => f = 20
    /\ d = 31 * 60000 => f = 70
    /\ d = 90 * 60000 => f = 70
    /\ d = 91 * 60000 => f = 120

\* C11: for every duration d >= 0, computeFee(d) is the fee of the tier rule:
\* with minutes = ceil(d / 60000), basePrice when minutes <= baseMinutes and
\* basePrice + ceil((minutes - baseMinutes) / 60) * hourlyAfter otherwise;
\* with (30, 20, 50) that is 20 at 0 and at 30 min, 70 at 31 and at 90 min,
\* 120 at 91 min.
C11_FeeIsTierRule ==
    probe.f1 # Null =>
        /\ Val(probe.f1) = ReferenceFee(probe.d1)
        /\ Val(probe.f2) = ReferenceFee(probe.d2)
        /\ C11_Examples(probe.d1, Val(probe.f1))
        /\ C11_Examples(probe.d2, Val(probe.f2))

\* C11 witness: the fees of 90 and of 91 minutes have been computed, 70 and 120.
W_C11 ==
    /\ probe.f1 # Null
    /\ probe.d1 = 90 * 60000 /\ Val(probe.f1) = 70
    /\ probe.d2 = 91 * 60000 /\ Val(probe.f2) = 120

\* C12: the history is append-only, most recent first: a step other than a
\* confirmed reset leaves the history as it was or puts exactly one record in
\* front of it, the previous history being the tail of the new one; so no
\* record is edited, removed or reordered and the length only decreases on
\* a reset.
C12_HistoryAppendOnly ==
    [][\/ history' = history
       \/ Prepended
       \/ \E p \in Routes : ConfirmReset(p)]_vars

\* C12 witness: two records, the later release in front of the earlier one.
W_C12 ==
    /\ Len(history) = 2
    /\ history[1].exitTime > history[2].exitTime

\* C13: a confirmed reset leaves every slot free, the history empty, the
\* registry with totalSlots slots and no value stored under the key; a
\* cancelled reset changes neither the slots, nor the history, nor the store,
\* nor anything else of STATE.
C13_ResetClearsAll ==
    [][/\ (modal.kind = "reset" /\ \E p \in Routes : ConfirmReset(p)) =>
             /\ Len(slots') = totalSlots
             /\ \A i \in 1 .. Len(slots') :
                   /\ ~slots'[i].occupied
                   /\ slots'[i].vehicle = Null
                   /\ slots'[i].entryTime = Null
             /\ history' = << >>
             /\ store' = Null
       /\ (modal.kind = "reset" /\ HideModal) =>
             UNCHANGED <<slots, history, store, config, theme, timers>>]_vars

\* C13 witness: the state a confirmed reset left behind after a park: nothing
\* stored, every slot free, no record, and the interval of the parked slot
\* still registered.
W_C13 ==
    /\ store = Null
    /\ OccupiedPositions = {}
    /\ history = << >>
    /\ timers # {}

\* The stored snapshot holds the slots and the history that are in memory.
SnapshotCurrent ==
    /\ store # Null
    /\ hasKey(Val(store), "slots") /\ member(Val(store), "slots") = slots
    /\ hasKey(Val(store), "history") /\ member(Val(store), "history") = history

\* The step is a park that took a slot, or a confirmed removal.
MutatingStep ==
    /\ slots' # slots \/ history' # history
    /\ (\E form \in Submissions : Park(form)) \/ ConfirmRemove

\* C14: every completed park and every confirmed removal ends with the whole
\* state saved: in the state the step leaves, the slots and the history of
\* the stored snapshot are the slots and the history in memory.
C14_SavedAfterMutation == [][MutatingStep => SnapshotCurrent']_vars

\* C14 witness: after two parks and one removal the snapshot holds the
\* record and the remaining session.
W_C14 ==
    /\ SnapshotCurrent
    /\ Len(member(Val(store), "history")) = 1
    /\ \E i \in 1 .. totalSlots : member(Val(store), "slots")[i].occupied

\* STATE after save() followed by load().
SavedThenLoaded == load(save(slots, history, config, theme), config)

EntriesHave(arr, fields) == \A i \in 1 .. Len(arr) : fields \subseteq DOMAIN arr[i]

\* The stored value is missing, is no JSON text, lacks slots or history, or
\* has slots or a history whose entries are not slots and records.
BadSnapshot(st) ==
    \/ st = Null
    \/ ~parses(Val(st))
    \/ ~hasKey(Val(st), "slots")
    \/ ~hasKey(Val(st), "history")
    \/ ~EntriesHave(member(Val(st), "slots"),
                    {"id", "type", "occupied", "vehicle", "entryTime"})
    \/ ~EntriesHave(member(Val(st), "history"),
                    {"vehicleNumber", "owner", "type", "slotId", "entryTime",
                     "exitTime", "durationMs", "fee"})

\* The state of a first run: totalSlots free slots with the ids 1..totalSlots
\* and no record.
IsFirstRunState ==
    /\ Len(slots) = totalSlots
    /\ \A i \in 1 .. Len(slots) :
          /\ DOMAIN slots[i] = {"id", "type", "occupied", "vehicle", "entryTime"}
          /\ slots[i].id = i
          /\ ~slots[i].occupied
    /\ history = << >>

\* C16 as stated: start-up with a missing, unparsable or malformed stored
\* value discards it: the state after boot is the first-run state, with
\* totalSlots free slots of ids 1..totalSlots and an empty history.
CE_C16_BadSnapshotDiscarded ==
    [][(BadSnapshot(store) /\ \E p \in Routes : Boot(p)) => IsFirstRunState']_vars

\* The keys of the members of the stored snapshot.
SnapshotKeys == {Val(store)[i][1] : i \in 1 .. Len(Val(store))}

\* C17 as stated: the snapshot save wrote holds the slots and the history
\* and nothing else, no timers and no theme flag; so load, run on the STATE
\* the script starts from, changes only the slots and the history and
\* leaves the theme and the configuration as the script set them.
CE_C17_SnapshotIsRegistryAndLedger ==
    store # Null =>
        /\ SnapshotKeys \subseteq {"slots", "history"}
        /\ load(store, State0(config).config).theme = State0(config).theme
        /\ load(store, State0(config).config).config = State0(config).config

\* The registry has totalSlots slots and their ids are 1..totalSlots.
RegistryShape ==
    /\ Len(slots) = totalSlots
    /\ {slots[i].id : i \in Positions} = 1 .. totalSlots

\* C18: the registry is fixed after its creation: whatever is parked and
\* removed there are totalSlots slots with the ids 1..totalSlots, no step
\* changes the id or the type of a slot, and a reset creates the slots again
\* with the same ids and the same types.
C18_RegistryFixed ==
    [][/\ RegistryShape /\ RegistryShape'
       /\ \A i \in Positions :
             slots'[i].id = slots[i].id /\ slots'[i].type = slots[i].type]_vars

\* C18 witness: the registry after two parks with their intervals started, a
\* reset, and one park more.
W_C18 ==
    /\ RegistryShape
    /\ parked = 1 /\ history = << >>
    /\ Cardinality(timers) >= 2
    /\ Cardinality(OccupiedPositions) = 1

\* The records of the history of category c.
RecordsOfType(c) == {i \in 1 .. Len(history) : history[i].type = c}

\* The occupied slots whose vehicle is of category c.
SessionsOfType(c) == {i \in OccupiedPositions : Val(slots[i].vehicle).type = c}

\* C19: typeCounts gives for every category the number of records of that
\* category plus the number of occupied slots whose vehicle is of that
\* category, and its counts add up to the length of the history plus the
\* number of occupied slots.
C19_TypeCounts ==
    /\ DOMAIN typeCounts(slots, history) = Types
    /\ \A c \in Types :
          typeCounts(slots, history)[c] =
              Cardinality(RecordsOfType(c)) + Cardinality(SessionsOfType(c))
    /\ typeCounts(slots, history).car + typeCounts(slots, history).bike
          + typeCounts(slots, history).truck
          = Len(history) + Cardinality(OccupiedPositions)

\* C19 witness: a car and a bike were released and a car is parked: two
\* cars, one bike, no truck.
W_C19 ==
    /\ Len(history) = 2
    /\ Cardinality(OccupiedPositions) = 1
    /\ typeCounts(slots, history) = [car |-> 2, bike |-> 1, truck |-> 0]

\* The records whose exitTime falls on local day k of the calendar.
RecordsOfDay(k) ==
    SelectSeq(history, LAMBDA h : /\ h.exitTime >= midnight(probe.cal, k)
                                  /\ h.exitTime < midnight(probe.cal, k + 1))

\* a[1].value + ... + a[n].value
RECURSIVE BucketSum(_, _)
BucketSum(a, n) == IF n = 0 THEN 0 ELSE a[n].value + BucketSum(a, n - 1)

\* C20 as stated: revenueByDay(7) gives exactly 7 buckets, the oldest day
\* first and today last; every bucket is >= 0 and is the sum of the fees of
\* the records whose exitTime falls on its day; so the buckets add up to the
\* fees of the records whose exitTime lies in the 7 days, which is never
\* more than the total revenue.
CE_C20_RevenueByDay ==
    probe.buckets # Null =>
        LET b == Val(probe.buckets)
        IN  /\ Len(b) = 7
            /\ \A n \in 1 .. Len(b) :
                  /\ b[n].label = Days - (Len(b) - n)
                  /\ b[n].value >= 0
                  /\ b[n].value = sumFees(RecordsOfDay(b[n].label))
            /\ BucketSum(b, Len(b)) =
                  sumFees(SelectSeq(history,
                      LAMBDA h : /\ h.exitTime >= midnight(probe.cal, 1)
                                 /\ h.exitTime < midnight(probe.cal, Days + 1)))
            /\ BucketSum(b, Len(b)) <= sumFees(history)

\* C21: a park never takes an occupied slot: the vehicle number, owner, type
\* and entry time of an occupied slot are the same after every step, whatever
\* is parked or removed elsewhere, unless the step releases that slot or
\* resets the data.
C21_SessionUntouched ==
    [][\A k \in Positions :
          (slots[k].occupied /\ slots'[k] # slots[k]) =>
              /\ ~slots'[k].occupied
              /\ ConfirmRemove \/ \E p \in Routes : ConfirmReset(p)]_vars

\* C21 witness: a session opened at the start is still in its slot after the
\* clock advanced, two later sessions were opened and released, and a third
\* is open beside it.
W_C21 ==
    /\ \E i \in OccupiedPositions : slots[i].entryTime = Some(Epoch)
    /\ \E i \in OccupiedPositions : Val(slots[i].entryTime) > Epoch
    /\ Len(history) = 2
    /\ history[1].entryTime > Epoch /\ history[2].entryTime > Epoch

\* C22: the state survives a restart: whatever was parked, removed or reset
\* before, loading the page again (load, then initSlots) gives slots and a
\* history equal to those in memory just before, also on a first run and
\* directly after a reset, when nothing is stored.
C22_RestartKeepsState ==
    [][\A p \in Routes : Boot(p) => (slots' = slots /\ history' = history)]_vars

\* C22 witness: a slot was occupied while another one was released, which
\* started its interval; no interval is registered any more, as after a
\* reload, and the session and the record are there.
W_C22 ==
    /\ Len(history) = 1
    /\ \E i \in OccupiedPositions : Val(slots[i].entryTime) < history[1].exitTime
    /\ timers = {}
    /\ store # Null

\* C23: the fee of every record is computeFee of that record's durationMs,
\* which is its exitTime minus its entryTime; and in the step of a release the
\* fee the confirmation dialog showed, the fee of the new record and the fee
\* on the invoice are one value.
C23_OneFeePerRelease ==
    [][/\ \A i \in 1 .. Len(history') :
             /\ history'[i].durationMs = history'[i].exitTime - history'[i].entryTime
             /\ history'[i].fee = computeFee(history'[i].durationMs, config')
       /\ Len(history') = Len(history) + 1 =>
             /\ modal.kind = "remove"
             /\ history'[1].fee = modal.fee
             /\ invoiceData(modal, history').fee = history'[1].fee
             /\ invoiceData(modal, history').duration = fmtDuration(modal.duration)]_vars

\* C23 witness: one release after a stay of one clock advance, 61 started
\* minutes: base price plus one hourly rate.
W_C23 ==
    /\ Len(history) = 1
    /\ history[1].durationMs = TickMs
    /\ history[1].fee = basePrice + hourlyAfter

\* The removal the open dialog would confirm is the one it was opened for:
\* its slot has the requested id and is occupied, by a vehicle, since the
\* entry time the duration and the fee were computed from.
PendingRemovalCurrent ==
    modal.kind = "remove" =>
        /\ modal.slot \in Positions
        /\ slots[modal.slot].id = modal.slotId
        /\ slots[modal.slot].occupied
        /\ slots[modal.slot].vehicle # Null
        /\ slots[modal.slot].entryTime # Null
        /\ modal.duration = modal.now - Val(slots[modal.slot].entryTime)
        /\ modal.fee = computeFee(modal.duration, config)

\* C24: one dialog at a time holds a callback, so a removal confirmation
\* always finds its slot occupied by the vehicle and the entry time the fee
\* was computed for: while the dialog stays open its slot is not freed,
\* reset or parked into again, and the record a confirmation adds is the
\* record of that session, with a vehicle number and an owner.
C24_ConfirmationFindsItsSession ==
    [][/\ PendingRemovalCurrent /\ PendingRemovalCurrent'
       /\ (modal.kind = "remove" /\ modal' = modal) =>
             slots'[modal.slot] = slots[modal.slot]
       /\ Len(history') = Len(history) + 1 =>
             /\ modal.kind = "remove"
             /\ history'[1].vehicleNumber = Val(slots[modal.slot].vehicle).number
             /\ history'[1].owner = Val(slots[modal.slot].vehicle).owner
             /\ history'[1].entryTime = Val(slots[modal.slot].entryTime)
             /\ history'[1].slotId = modal.slotId
             /\ history'[1].vehicleNumber # "" /\ history'[1].owner # ""]_vars

\* C24 witness: a removal dialog is open since before the clock advanced,
\* beside another session and after an earlier release.
W_C24 ==
    /\ modal.kind = "remove"
    /\ clock > modal.now
    /\ Len(history) = 1
    /\ Cardinality(OccupiedPositions) = 2

\* C25: with a clock that does not go back the history is ordered by exit
\* time: from front to back the exitTime of consecutive records does not
\* increase, although exitTime is read when the dialog is opened and the
\* record is added when it is confirmed.
C25_HistoryOrderedByExit ==
    \A i \in 1 .. Len(history) - 1 : history[i].exitTime >= history[i + 1].exitTime

\* C25 witness: two records of sessions that overlapped, the one in front
\* requested one clock advance after the one behind it.
W_C25 ==
    /\ Len(history) = 2
    /\ history[1].exitTime = history[2].exitTime + TickMs
    /\ history[1].entryTime < history[2].exitTime + TickMs
    /\ history[1].entryTime = history[2].entryTime
====
